---- MODULE Spec2Model ----
(***************************************************************************)
(* ngperf: the Angular performance analyzer of                             *)
(* src/src/ngperf/performance-analyzer.ts.                                 *)
(*                                                                         *)
(* A source file is modelled by what the analyzer can observe of its text: *)
(* the class declarations in tree-walk order (with their decorators), the  *)
(* set of complexity patterns that test true on the text, the              *)
(* `x.subscribe(...)` call expressions and the import declarations of its  *)
(* syntax tree, and the template file its templateUrl points at.  A        *)
(* template is a sequence of lines; each line is a directive or a run of   *)
(* interpolations.  Texts that the code searches with includes() are       *)
(* sequences of tokens and includes() is the contiguous-subsequence test.  *)
(* Constant message fields of findings (fix, estimatedImpact, location)    *)
(* carry no decision and are left out of the records.                      *)
(***************************************************************************)
EXTENDS Integers, Sequences, FiniteSets, TLC

\* ------------------------------------------------------------------ bounds
MaxClasses == 2
MaxSubscribe == 5
MaxTplLen == 2
MaxFiles == 3

\* ------------------------------------------------------------------ helpers
None == <<>>
Some(x) == <<x>>

Max(a, b) == IF a >= b THEN a ELSE b

\* String.prototype.includes on token sequences: sub occurs contiguously in text.
includes(text, sub) ==
  \E i \in 0..(Len(text) - Len(sub)) :
    \A j \in 1..Len(sub) : text[i + j] = sub[j]

RECURSIVE Concat(_)
Concat(seqs) ==
  IF seqs = <<>> THEN <<>> ELSE Head(seqs) \o Concat(Tail(seqs))

Count(seq, P(_)) == Cardinality({i \in 1..Len(seq) : P(seq[i])})

SeqsUpTo(S, n) == UNION {[1..k -> S] : k \in 0..n}

\* \w+ of the template regexes: letters, digits and underscore; "$" is not a word
\* character.
IsWord(parts) == parts # <<>> /\ \A i \in 1..Len(parts) : parts[i] # "$"

\* ------------------------------------------------------------------ inputs
\* Class declarations as parseComponentFile's visit sees them.
\*   named      node.name is present
\*   decorator  "none": no @Component(...) decorator; "object": @Component({...});
\*              "noarg": @Component() with no argument
\*   changeDetection  the final identifier of a property-access initializer of the
\*              changeDetection key, or "absent"
\*   templateUrl  the annotation has a string-literal templateUrl
\* Every named declaration, and of the unnamed ones (which visit passes over
\* whatever they carry) a plain one and one annotated with OnPush.
ClassDecls ==
  {c \in [named : BOOLEAN, decorator : {"none", "object", "noarg"},
          changeDetection : {"absent", "OnPush", "Default"}, templateUrl : BOOLEAN] :
     /\ c.decorator # "object" => (c.changeDetection = "absent" /\ ~c.templateUrl)
     /\ ~c.named => \/ c.decorator = "none"
                    \/ (c.decorator = "object" /\ c.changeDetection = "OnPush"
                          /\ c.templateUrl)}

ClassLists == SeqsUpTo(ClassDecls, MaxClasses)

\* The patterns of complexityIndicators, in the order of the array literal.
complexityIndicators ==
  << "ctorService", "ctorHttp", "ctorApi",
     "ngOnInit", "ngOnChanges", "ngAfterViewInit", "ngOnDestroy",
     "subscribe", "Observable", "Subject", "BehaviorSubject",
     "FormBuilder", "FormGroup", "FormControl", "Validators",
     "complexMethod", "computedGetter",
     "onHandler", "handleHandler",
     "inputDecl" >>

\* The patterns a source body of the input set may match.
SampledPatterns == {"ngOnInit", "ngOnDestroy", "subscribe"}

ImportLists ==
  { << <<"@angular", "core">> >>,
    << <<"@angular", "core">>, <<"rxjs", "operators">> >> }

\* A source body: the patterns that test true on the text, the number of
\* subscribe call expressions of the tree, the module specifiers of the imports.
Bodies ==
  [matches : SUBSET SampledPatterns, subscribeCalls : 0..MaxSubscribe,
   imports : ImportLists]

\* Template lines.
Interp(form, name) == [form |-> form, name |-> name]
InterpLine(interps) == [kind |-> "interp", interps |-> interps, expr |-> <<>>]
DirectiveLine(kind, expr) == [kind |-> kind, interps |-> <<>>, expr |-> expr]

\* <div>{{ greeting() }}</div>
LineGreeting == InterpLine(<< Interp("call", <<"greeting">>) >>)
\* {{ total() }} {{ count() }}
LineTwoCalls ==
  InterpLine(<< Interp("call", <<"total">>), Interp("call", <<"count">>) >>)
\* {{ data$ }}
LineDollar == InterpLine(<< Interp("ident", <<"data", "$">>) >>)
\* {{ load$() }}
LineDollarCall == InterpLine(<< Interp("call", <<"load", "$">>) >>)
\* {{ userstream }}
LineStream == InterpLine(<< Interp("ident", <<"user", "stream">>) >>)
\* {{ title }} {{ user.name }} {{ user.age }}
LineThree ==
  InterpLine(<< Interp("ident", <<"title">>), Interp("expr", <<"user", ".", "name">>),
                Interp("expr", <<"user", ".", "age">>) >>)
\* *ngFor="let u of users"
LineFor == DirectiveLine("ngFor", <<"let", "u", "of", "users">>)
\* *ngFor="let u of users; trackBy: byId"
LineForTrackBy ==
  DirectiveLine("ngFor", <<"let", "u", "of", "users", ";", "trackBy", ":", "byId">>)
\* *ngFor="let r of rows"
LineForRows == DirectiveLine("ngFor", <<"let", "r", "of", "rows">>)
\* *ngIf="user.role === admin"
LineIfCompare == DirectiveLine("ngIf", <<"user", ".", "role", "===", "admin">>)
\* (click)="save()"
LineEvent == DirectiveLine("event", <<"save", "(", ")">>)
\* <p>static</p>
LineText == DirectiveLine("text", <<>>)

TemplateLines ==
  {LineGreeting, LineTwoCalls, LineDollar, LineDollarCall, LineStream, LineThree, LineFor,
   LineForTrackBy, LineForRows, LineIfCompare, LineEvent, LineText}

\* The template file at the templateUrl: unreadable, or its lines.
MissingTemplate == [readable |-> FALSE, lines |-> <<>>]
TemplateFile(lines) == [readable |-> TRUE, lines |-> lines]
Templates == {MissingTemplate} \cup {TemplateFile(l) : l \in SeqsUpTo(TemplateLines, MaxTplLen)}

SourceFile(classes, body, template) ==
  [readable |-> TRUE, classes |-> classes, body |-> body, template |-> template]

\* Representative values of each part; the input set varies one part over its whole
\* range while the two others range over these.
Annotated(cd, tpl) ==
  [named |-> TRUE, decorator |-> "object", changeDetection |-> cd, templateUrl |-> tpl]

KeyClassLists ==
  { <<>>, << Annotated("absent", TRUE) >>, << Annotated("OnPush", TRUE) >> }

KeyBodies ==
  { [matches |-> {}, subscribeCalls |-> 0, imports |-> << <<"@angular", "core">> >>],
    [matches |-> {"ngOnInit"}, subscribeCalls |-> 0,
     imports |-> << <<"@angular", "core">> >>],
    [matches |-> {"ngOnInit", "subscribe"}, subscribeCalls |-> MaxSubscribe,
     imports |-> << <<"@angular", "core">>, <<"rxjs", "operators">> >>] }

KeyTemplates ==
  { MissingTemplate, TemplateFile(<< LineGreeting >>),
    TemplateFile(<< LineFor, LineTwoCalls >>) }

\* A path whose readFileSync throws.
UnreadableFile ==
  [readable |-> FALSE, classes |-> <<>>,
   body |-> [matches |-> {}, subscribeCalls |-> 0, imports |-> <<>>],
   template |-> MissingTemplate]

Files ==
  {UnreadableFile}
    \cup {SourceFile(c, b, t) : c \in ClassLists, b \in KeyBodies, t \in KeyTemplates}
    \cup {SourceFile(c, b, t) : c \in KeyClassLists, b \in Bodies, t \in KeyTemplates}
    \cup {SourceFile(c, b, t) : c \in KeyClassLists, b \in KeyBodies, t \in Templates}

\* ------------------------------------------------------------------ parsing
defaultMetadata ==
  [selector |-> "", templateUrl |-> None, changeDetection |-> None,
   inputs |-> <<>>, outputs |-> <<>>, providers |-> <<>>]

\* An extractor that does not recognise the changeDetection key.
parseComponentMetadata_withoutChangeDetection(decl) ==
  [defaultMetadata EXCEPT
     !.selector = "app-root",
     !.templateUrl = IF decl.templateUrl THEN Some("./view.html") ELSE None]

\* parseComponentMetadata: the recognised keys of the annotation's object literal.
parseComponentMetadata(decl) ==
  [defaultMetadata EXCEPT
     !.selector = "app-root",
     !.templateUrl = IF decl.templateUrl THEN Some("./view.html") ELSE None,
     !.changeDetection =
        IF decl.changeDetection = "absent" THEN None ELSE Some(decl.changeDetection)]

\* The name the i-th class declaration of a file carries.
ClassName(i) == "Component" \o ToString(i)

\* visit: one class declaration, given what the walk has found so far.
visitClass(acc, decl, i) ==
  IF acc.threw \/ ~decl.named THEN acc
  ELSE
    LET named == [acc EXCEPT !.componentName = ClassName(i)] IN
    CASE decl.decorator = "none" -> named
      [] decl.decorator = "noarg" -> [named EXCEPT !.threw = TRUE]
      [] decl.decorator = "object" ->
           [named EXCEPT !.metadata = parseComponentMetadata(decl)]

\* visit(sourceFile): the walk over the class declarations in tree order.
RECURSIVE visit(_, _, _)
visit(acc, classes, i) ==
  IF i > Len(classes) THEN acc
  ELSE visit(visitClass(acc, classes[i], i), classes, i + 1)

\* ts.createSourceFile: the syntax tree of a source text, as the tree walks read it.
\* The call expressions every source body has beside its subscribe calls:
\* subscribe(next), obs.pipe(op), obs['subscribe'](next).
otherCalls ==
  << [callee |-> "identifier", name |-> "subscribe", receiver |-> ""],
     [callee |-> "propertyAccess", name |-> "pipe", receiver |-> "obs"],
     [callee |-> "elementAccess", name |-> "subscribe", receiver |-> "obs"] >>

createSourceFile(sourceCode) ==
  [classes |-> sourceCode.classes,
   calls |->
     [i \in 1..sourceCode.body.subscribeCalls |->
        [callee |-> "propertyAccess", name |-> "subscribe",
         receiver |-> "obs" \o ToString(i)]] \o otherCalls,
   imports |-> sourceCode.body.imports]

\* A template loader that reads the template beside the source whether or not the
\* annotation names one.
loadTemplate_withoutUrl(metadata, file) ==
  [templateCode |-> IF file.template.readable THEN file.template.lines ELSE <<>>,
   warned |-> ~file.template.readable]

\* A loader that says nothing when the read fails.
loadTemplate_unwarned(metadata, file) ==
  IF metadata.templateUrl # None /\ file.template.readable
  THEN [templateCode |-> file.template.lines, warned |-> FALSE]
  ELSE [templateCode |-> <<>>, warned |-> FALSE]

\* parseComponentFile, the template: read only when metadata.templateUrl is set; a
\* failing read is warned about and leaves templateCode empty.
loadTemplate(metadata, file) ==
  IF metadata.templateUrl # None
  THEN IF file.template.readable
       THEN [templateCode |-> file.template.lines, warned |-> FALSE]
       ELSE [templateCode |-> <<>>, warned |-> TRUE]
  ELSE [templateCode |-> <<>>, warned |-> FALSE]

\* parseComponentFile: [threw, warned, info].
parseComponentFile(file) ==
  IF ~file.readable THEN [threw |-> TRUE, warned |-> FALSE, info |-> None]
  ELSE
    LET sourceCode == [classes |-> file.classes, body |-> file.body]
        found == visit([componentName |-> "", metadata |-> defaultMetadata,
                        threw |-> FALSE], file.classes, 1)
        loaded == loadTemplate(found.metadata, file)
    IN IF found.threw THEN [threw |-> TRUE, warned |-> FALSE, info |-> None]
       ELSE [threw |-> FALSE,
             warned |-> loaded.warned,
             info |-> Some([name |-> found.componentName,
                            sourceCode |-> sourceCode,
                            templateCode |-> loaded.templateCode,
                            metadata |-> found.metadata])]

\* ------------------------------------------------------------------ the analyzer
\* A PerformanceAnalyzer instance: its fields componentInfo and sourceFile, unset
\* until the first analyzeComponent.
FreshAnalyzer == [componentInfo |-> None, sourceFile |-> None]

Get(opt) == opt[1]

MapSeq(seq, F(_)) == [i \in 1..Len(seq) |-> F(seq[i])]

\* Every interpolation of a template, in order of occurrence.
Interpolations(template) == Concat(MapSeq(template, LAMBDA line : line.interps))

\* pattern.test(sourceCode) for a pattern of complexityIndicators.
testSource(pattern, sourceCode) == pattern \in sourceCode.body.matches

templateComplexityIndicators ==
  << "ngFor", "ngIf", "ngSwitch", "eventBinding", "propertyBinding", "interpolation" >>

\* pattern.test(templateCode) for a pattern of templateComplexityIndicators.
testTemplate(pattern, template) ==
  CASE pattern = "ngFor" -> \E i \in 1..Len(template) : template[i].kind = "ngFor"
    [] pattern = "ngIf" -> \E i \in 1..Len(template) : template[i].kind = "ngIf"
    [] pattern = "ngSwitch" -> \E i \in 1..Len(template) : template[i].kind = "ngSwitch"
    [] pattern = "eventBinding" -> \E i \in 1..Len(template) : template[i].kind = "event"
    [] pattern = "propertyBinding" ->
         \E i \in 1..Len(template) : template[i].kind \in {"property", "ngSwitch"}
    [] pattern = "interpolation" -> Interpolations(template) # <<>>

sourceComplexityCount(sourceCode) ==
  Cardinality({i \in 1..Len(complexityIndicators) :
                 testSource(complexityIndicators[i], sourceCode)})

hasTemplateComplexity(templateCode) ==
  \E i \in 1..Len(templateComplexityIndicators) :
    testTemplate(templateComplexityIndicators[i], templateCode)

\* A classifier whose source-probe disjunct also asks for a template.
shouldRecommendOnPush_needsTemplate(this) ==
  LET sourceCode == Get(this.componentInfo).sourceCode
      templateCode == Get(this.componentInfo).templateCode
      templateMatches == Interpolations(templateCode)
  IN \/ (sourceComplexityCount(sourceCode) >= 2 /\ templateCode # <<>>)
     \/ (hasTemplateComplexity(templateCode) /\ sourceComplexityCount(sourceCode) >= 1)
     \/ Len(templateMatches) > 3

shouldRecommendOnPush(this) ==
  LET sourceCode == Get(this.componentInfo).sourceCode
      templateCode == Get(this.componentInfo).templateCode
      templateMatches == Interpolations(templateCode)
  IN \/ sourceComplexityCount(sourceCode) >= 2
     \/ (hasTemplateComplexity(templateCode) /\ sourceComplexityCount(sourceCode) >= 1)
     \/ Len(templateMatches) > 3

\* /\{\{\s*(\w+)\s*\(\s*\)\s*\}\}/g
findFunctionCallsInTemplate(template) ==
  MapSeq(SelectSeq(Interpolations(template),
                   LAMBDA x : x.form = "call" /\ IsWord(x.name)),
         LAMBDA x : [functionName |-> x.name])

\* /\*ngIf\s*=\s*"([^"]*\.\w+\s*===?\s*[^"]*)/g
isObjectComparison(expr) ==
  \E i \in 1..(Len(expr) - 2) :
    expr[i] = "." /\ IsWord(<<expr[i + 1]>>) /\ expr[i + 2] \in {"==", "==="}

findObjectComparisonsInTemplate(template) ==
  MapSeq(SelectSeq(template,
                   LAMBDA line : line.kind = "ngIf" /\ isObjectComparison(line.expr)),
         LAMBDA line : [expression |-> line.expr])

\* An estimate above the threshold of the large-list check.
estimateLoopSize_large(ngForExpression) ==
  IF includes(ngForExpression, <<"users">>) \/ includes(ngForExpression, <<"items">>)
  THEN Some(500) ELSE None

estimateLoopSize(ngForExpression) ==
  IF includes(ngForExpression, <<"users">>) \/ includes(ngForExpression, <<"items">>)
  THEN Some(50) ELSE None

\* A scan that never sees a trackBy.
findNgForLoops_ignoresTrackBy(template) ==
  MapSeq(SelectSeq(template, LAMBDA line : line.kind = "ngFor"),
         LAMBDA line : [hasTrackBy |-> FALSE,
                        estimatedSize |-> estimateLoopSize(line.expr)])

\* /\*ngFor\s*=\s*"([^"]*)"/g
findNgForLoops(template) ==
  MapSeq(SelectSeq(template, LAMBDA line : line.kind = "ngFor"),
         LAMBDA line : [hasTrackBy |-> includes(line.expr, <<"trackBy">>),
                        estimatedSize |-> estimateLoopSize(line.expr)])

isSubscriptionVariable(variableName) ==
  \/ includes(variableName, <<"$">>)
  \/ includes(variableName, <<"subscription">>)
  \/ includes(variableName, <<"observable">>)
  \/ includes(variableName, <<"stream">>)

\* /\{\{\s*(\w+)\s*\}\}/g
findSubscriptionUsagesInTemplate(template) ==
  MapSeq(SelectSeq(Interpolations(template),
                   LAMBDA x : x.form = "ident" /\ IsWord(x.name)
                                /\ isSubscriptionVariable(x.name)),
         LAMBDA x : [snippet |-> x.name])

\* A walk that takes every call expression for a subscription.
findManualSubscriptions_everyCall(this) ==
  MapSeq(Get(this.sourceFile).calls, LAMBDA node : [variableName |-> node.receiver])

\* The call expressions whose callee is a property access named subscribe.
findManualSubscriptions(this) ==
  MapSeq(SelectSeq(Get(this.sourceFile).calls,
                   LAMBDA node : node.callee = "propertyAccess"
                                   /\ node.name = "subscribe"),
         LAMBDA node : [variableName |-> node.receiver])

findImports(this) ==
  MapSeq(Get(this.sourceFile).imports, LAMBDA spec : [moduleName |-> spec])

largeLibraries == << <<"lodash">>, <<"moment">>, <<"rxjs">>, <<"@angular", "material">> >>

isLargeLibrary(moduleName) ==
  \E i \in 1..Len(largeLibraries) : includes(moduleName, largeLibraries[i])

\* ------------------------------------------------------------------ rule evaluators
\* A check that does not consult the complexity classifier.
checkOnPush_ungated(this) ==
  LET changeDetection == Get(this.componentInfo).metadata.changeDetection IN
  IF changeDetection = None \/ changeDetection # Some("OnPush")
  THEN << [type |-> "missing-onpush", severity |-> "high",
           description |-> <<"Component uses default change detection strategy">>] >>
  ELSE <<>>

\* analyzeChangeDetection, first check: OnPush is missing and would help.
checkOnPush(this) ==
  LET changeDetection == Get(this.componentInfo).metadata.changeDetection IN
  IF changeDetection = None \/ changeDetection # Some("OnPush")
  THEN IF shouldRecommendOnPush(this)
       THEN << [type |-> "missing-onpush", severity |-> "high",
                description |->
                  <<"Component uses default change detection strategy">>] >>
       ELSE <<>>
  ELSE <<>>

\* analyzeChangeDetection, second check: function calls in the template.
checkFunctionCalls(this) ==
  LET templateCode == Get(this.componentInfo).templateCode IN
  IF templateCode # <<>>
  THEN MapSeq(findFunctionCallsInTemplate(templateCode),
              LAMBDA call :
                [type |-> "function-in-template", severity |-> "high",
                 description |->
                   <<"Function call '">> \o call.functionName
                     \o <<"' in template causes unnecessary re-execution">>])
  ELSE <<>>

\* analyzeChangeDetection, third check: object comparisons in ngIf.
checkObjectComparisons(this) ==
  LET templateCode == Get(this.componentInfo).templateCode IN
  IF templateCode # <<>>
  THEN MapSeq(findObjectComparisonsInTemplate(templateCode),
              LAMBDA comparison :
                [type |-> "object-comparison", severity |-> "medium",
                 description |->
                   <<"Object comparison in template: ">> \o comparison.expression])
  ELSE <<>>

analyzeChangeDetection(this) ==
  checkOnPush(this) \o checkFunctionCalls(this) \o checkObjectComparisons(this)

analyzeTemplate(this) ==
  LET templateCode == Get(this.componentInfo).templateCode
      ngForLoops == findNgForLoops(templateCode)
      missingTrackBy ==
        MapSeq(SelectSeq(ngForLoops, LAMBDA loop : ~loop.hasTrackBy),
               LAMBDA loop :
                 [type |-> "missing-trackby", severity |-> "high",
                  description |-> <<"*ngFor loop missing trackBy function">>,
                  elementCount |-> loop.estimatedSize])
      asyncPipe ==
        MapSeq(findSubscriptionUsagesInTemplate(templateCode),
               LAMBDA usage :
                 [type |-> "async-pipe-opportunity", severity |-> "medium",
                  description |->
                    <<"Manual subscription can be replaced with async pipe">>,
                  elementCount |-> None])
      largeNgFor ==
        MapSeq(SelectSeq(ngForLoops,
                         LAMBDA loop : loop.estimatedSize # None
                                         /\ Get(loop.estimatedSize) > 100),
               LAMBDA loop :
                 [type |-> "large-ngfor", severity |-> "high",
                  description |->
                    <<"Large ngFor loop with ~", ToString(Get(loop.estimatedSize)),
                      " items">>,
                  elementCount |-> loop.estimatedSize])
  IN IF templateCode = <<>> THEN <<>>
     ELSE missingTrackBy \o asyncPipe \o largeNgFor

\* A rule whose second check fires from three subscriptions on.
analyzeSubscriptions_fromThree(this) ==
  LET subscriptions == findManualSubscriptions(this)
      manual ==
        MapSeq(subscriptions,
               LAMBDA sub :
                 [type |-> "manual-subscription", severity |-> "medium",
                  description |->
                    <<"Manual subscription without proper cleanup: ",
                      sub.variableName>>])
      multiple ==
        IF Len(subscriptions) >= 3
        THEN << [type |-> "multiple-subscriptions", severity |-> "low",
                 description |->
                   <<"Component has ", ToString(Len(subscriptions)),
                     " manual subscriptions">>] >>
        ELSE <<>>
  IN manual \o multiple

analyzeSubscriptions(this) ==
  LET subscriptions == findManualSubscriptions(this)
      manual ==
        MapSeq(subscriptions,
               LAMBDA sub :
                 [type |-> "manual-subscription", severity |-> "medium",
                  description |->
                    <<"Manual subscription without proper cleanup: ",
                      sub.variableName>>])
      multiple ==
        IF Len(subscriptions) > 3
        THEN << [type |-> "multiple-subscriptions", severity |-> "low",
                 description |->
                   <<"Component has ", ToString(Len(subscriptions)),
                     " manual subscriptions">>] >>
        ELSE <<>>
  IN manual \o multiple

analyzeBundleOptimizations(this) ==
  MapSeq(SelectSeq(findImports(this), LAMBDA imp : isLargeLibrary(imp.moduleName)),
         LAMBDA imp :
           [type |-> "lazy-loading",
            description |->
              <<"Large library '">> \o imp.moduleName \o <<"' could be lazy loaded">>])

\* ------------------------------------------------------------------ scoring
\* A deduction that takes a medium finding for a low one.
RECURSIVE deductPoints_mediumAsLow(_, _)
deductPoints_mediumAsLow(issues, score) ==
  IF issues = <<>> THEN score
  ELSE deductPoints_mediumAsLow(Tail(issues),
         CASE Head(issues).severity = "high" -> score - 15
           [] Head(issues).severity = "medium" -> score - 5
           [] Head(issues).severity = "low" -> score - 5
           [] OTHER -> score)

\* deductPoints: the forEach over one family, from the running score.
RECURSIVE deductPoints(_, _)
deductPoints(issues, score) ==
  IF issues = <<>> THEN score
  ELSE deductPoints(Tail(issues),
         CASE Head(issues).severity = "high" -> score - 15
           [] Head(issues).severity = "medium" -> score - 10
           [] Head(issues).severity = "low" -> score - 5
           [] OTHER -> score)

\* A score returned without the final Math.max(0, score).
calculatePerformanceScore_unclamped(changeDetectionIssues, templateIssues, subscriptionIssues) ==
  deductPoints(subscriptionIssues,
    deductPoints(templateIssues, deductPoints(changeDetectionIssues, 100)))

calculatePerformanceScore(changeDetectionIssues, templateIssues, subscriptionIssues) ==
  Max(0, deductPoints(subscriptionIssues,
           deductPoints(templateIssues,
             deductPoints(changeDetectionIssues, 100))))

onPushRecommendation ==
  [priority |-> "high", category |-> "performance",
   title |-> "Implement OnPush Change Detection"]

trackByRecommendation ==
  [priority |-> "high", category |-> "performance", title |-> "Add TrackBy Functions"]

subscriptionRecommendation ==
  [priority |-> "medium", category |-> "memory",
   title |-> "Optimize Subscription Management"]

hasIssueOfType(issues, type) == \E i \in 1..Len(issues) : issues[i].type = type

\* A synthesis that pushes the trackBy recommendation once per missing-trackby
\* finding.
generateRecommendations_perFinding(changeDetectionIssues, templateIssues, subscriptionIssues, bundleOptimizations) ==
  (IF hasIssueOfType(changeDetectionIssues, "missing-onpush")
   THEN << onPushRecommendation >> ELSE <<>>)
  \o MapSeq(SelectSeq(templateIssues, LAMBDA issue : issue.type = "missing-trackby"),
            LAMBDA issue : trackByRecommendation)
  \o (IF Len(subscriptionIssues) > 0 THEN << subscriptionRecommendation >> ELSE <<>>)

\* A synthesis that takes any template finding for a missing trackBy.
generateRecommendations_anyTemplateIssue(changeDetectionIssues, templateIssues, subscriptionIssues, bundleOptimizations) ==
  (IF hasIssueOfType(changeDetectionIssues, "missing-onpush")
   THEN << onPushRecommendation >> ELSE <<>>)
  \o (IF Len(templateIssues) > 0 THEN << trackByRecommendation >> ELSE <<>>)
  \o (IF Len(subscriptionIssues) > 0 THEN << subscriptionRecommendation >> ELSE <<>>)

generateRecommendations(changeDetectionIssues, templateIssues, subscriptionIssues, bundleOptimizations) ==
  LET hasOnPushIssue == hasIssueOfType(changeDetectionIssues, "missing-onpush")
      hasTrackByIssues == hasIssueOfType(templateIssues, "missing-trackby")
      hasSubscriptionIssues == Len(subscriptionIssues) > 0
  IN (IF hasOnPushIssue THEN << onPushRecommendation >> ELSE <<>>)
     \o (IF hasTrackByIssues THEN << trackByRecommendation >> ELSE <<>>)
     \o (IF hasSubscriptionIssues THEN << subscriptionRecommendation >> ELSE <<>>)

\* ------------------------------------------------------------------ analyzeComponent
\* An instance that parses the source text only once and keeps that tree.
assignFields_keepsTree(this, info) ==
  [componentInfo |-> Some(info),
   sourceFile |-> IF this.sourceFile = None
                  THEN Some(createSourceFile(info.sourceCode))
                  ELSE this.sourceFile]

\* The fields of the instance after the two assignments that open analyzeComponent.
assignFields(this, info) ==
  [componentInfo |-> Some(info), sourceFile |-> Some(createSourceFile(info.sourceCode))]

\* A score that also takes five points for each bundle finding.
runRules_scoresBundle(this) ==
  LET changeDetectionIssues == analyzeChangeDetection(this)
      templateIssues == analyzeTemplate(this)
      subscriptionIssues == analyzeSubscriptions(this)
      bundleOptimizations == analyzeBundleOptimizations(this)
  IN [componentName |-> Get(this.componentInfo).name,
      changeDetectionIssues |-> changeDetectionIssues,
      templateIssues |-> templateIssues,
      subscriptionIssues |-> subscriptionIssues,
      bundleOptimizations |-> bundleOptimizations,
      performanceScore |->
        Max(0, calculatePerformanceScore(changeDetectionIssues, templateIssues,
                                         subscriptionIssues)
                 - 5 * Len(bundleOptimizations)),
      recommendations |->
        generateRecommendations(changeDetectionIssues, templateIssues,
                                subscriptionIssues, bundleOptimizations)]

\* The rules, the score and the recommendations, read from the instance's fields.
runRules(this) ==
  LET changeDetectionIssues == analyzeChangeDetection(this)
      templateIssues == analyzeTemplate(this)
      subscriptionIssues == analyzeSubscriptions(this)
      bundleOptimizations == analyzeBundleOptimizations(this)
  IN [componentName |-> Get(this.componentInfo).name,
      changeDetectionIssues |-> changeDetectionIssues,
      templateIssues |-> templateIssues,
      subscriptionIssues |-> subscriptionIssues,
      bundleOptimizations |-> bundleOptimizations,
      performanceScore |->
        calculatePerformanceScore(changeDetectionIssues, templateIssues,
                                  subscriptionIssues),
      recommendations |->
        generateRecommendations(changeDetectionIssues, templateIssues,
                                subscriptionIssues, bundleOptimizations)]

\* analyzeComponent(componentPath) on the instance `this`:
\* [threw, warned, this (the instance afterwards), analysis].
analyzeComponent(this, file) ==
  LET parsed == parseComponentFile(file) IN
  IF parsed.threw
  THEN [threw |-> TRUE, warned |-> FALSE, this |-> this, analysis |-> None]
  ELSE LET after == assignFields(this, Get(parsed.info))
       IN [threw |-> FALSE, warned |-> parsed.warned, this |-> after,
           analysis |-> Some(runRules(after))]

\* ------------------------------------------------------------------ project analysis
\* A JavaScript number held by the histogram: an integer count or NaN.
Num(n) == [nan |-> FALSE, value |-> n]
NaN == [nan |-> TRUE, value |-> 0]

\* The object literal issuesByType; its entries are in property order.
issuesByType ==
  << [type |-> "missing-onpush", count |-> Num(0)],
     [type |-> "function-in-template", count |-> Num(0)],
     [type |-> "missing-trackby", count |-> Num(0)],
     [type |-> "manual-subscription", count |-> Num(0)],
     [type |-> "async-pipe-opportunity", count |-> Num(0)],
     [type |-> "large-ngfor", count |-> Num(0)] >>

HasKey(obj, key) == \E i \in 1..Len(obj) : obj[i].type = key

\* issuesByType[key]++ : a present number grows by one, NaN stays NaN, and an absent
\* key reads as undefined, whose increment stores NaN under a new last property.
increment(obj, key) ==
  IF HasKey(obj, key)
  THEN [i \in 1..Len(obj) |->
          IF obj[i].type = key /\ ~obj[i].count.nan
          THEN [type |-> key, count |-> Num(obj[i].count.value + 1)]
          ELSE obj[i]]
  ELSE Append(obj, [type |-> key, count |-> NaN])

RECURSIVE countIssues(_, _)
countIssues(obj, issues) ==
  IF issues = <<>> THEN obj
  ELSE countIssues(increment(obj, Head(issues).type), Tail(issues))

\* The forEach over the analyses: the three families of each, in this order.
RECURSIVE countAnalyses(_, _)
countAnalyses(obj, analyses) ==
  IF analyses = <<>> THEN obj
  ELSE countAnalyses(
         countIssues(countIssues(countIssues(obj, Head(analyses).changeDetectionIssues),
                                 Head(analyses).templateIssues),
                     Head(analyses).subscriptionIssues),
         Tail(analyses))

\* The comparator ([, a], [, b]) => b - a as Array.prototype.sort reads it: the sign
\* of the difference, a NaN difference being taken for 0.
compareCounts(x, y) ==
  IF x.count.nan \/ y.count.nan THEN 0
  ELSE IF y.count.value < x.count.value THEN -1
  ELSE IF y.count.value > x.count.value THEN 1
  ELSE 0

\* Array.prototype.sort on a short array: the leading run is found (a strictly
\* descending one is reversed) and the rest is inserted by binary search.
RECURSIVE runEnd(_, _, _)
runEnd(work, idx, isDescending) ==
  IF idx > Len(work) THEN idx - 1
  ELSE LET order == compareCounts(work[idx], work[idx - 1]) IN
       IF (isDescending /\ order >= 0) \/ (~isDescending /\ order < 0)
       THEN idx - 1
       ELSE runEnd(work, idx + 1, isDescending)

countAndMakeRun(work) ==
  LET isDescending == compareCounts(work[2], work[1]) < 0
      last == runEnd(work, 3, isDescending)
  IN [runLength |-> last,
      work |-> IF isDescending
               THEN [i \in 1..Len(work) |-> IF i <= last THEN work[last + 1 - i]
                                            ELSE work[i]]
               ELSE work]

RECURSIVE insertionPoint(_, _, _, _)
insertionPoint(work, pivot, left, right) ==
  IF left >= right THEN left
  ELSE LET mid == left + ((right - left) \div 2) IN
       IF compareCounts(pivot, work[mid]) < 0
       THEN insertionPoint(work, pivot, left, mid)
       ELSE insertionPoint(work, pivot, mid + 1, right)

RECURSIVE binaryInsertionSort(_, _)
binaryInsertionSort(work, start) ==
  IF start > Len(work) THEN work
  ELSE LET pivot == work[start]
           left == insertionPoint(work, pivot, 1, start)
           moved == [i \in 1..Len(work) |->
                       IF i < left \/ i > start THEN work[i]
                       ELSE IF i = left THEN pivot
                       ELSE work[i - 1]]
       IN binaryInsertionSort(moved, start + 1)

sortEntries(entries) ==
  IF Len(entries) < 2 THEN entries
  ELSE LET run == countAndMakeRun(entries)
       IN binaryInsertionSort(run.work, run.runLength + 1)

\* .slice(0, 3).map(([type, count]) => ({ type, count }))
topIssues(obj) ==
  SubSeq(sortEntries(obj), 1, 3)

RECURSIVE sumScores(_)
sumScores(analyses) ==
  IF analyses = <<>> THEN 0
  ELSE Head(analyses).performanceScore + sumScores(Tail(analyses))

\* An average cut to two decimals instead of rounded.
averagePerformanceScore_truncated(analyses) ==
  IF Len(analyses) > 0
  THEN (100 * sumScores(analyses)) \div Len(analyses)
  ELSE 0

\* Math.round(averageScore * 100) / 100, held in hundredths: Math.round takes the
\* nearest integer and, half way, the larger one.
averagePerformanceScore(analyses) ==
  IF Len(analyses) > 0
  THEN (200 * sumScores(analyses) + Len(analyses)) \div (2 * Len(analyses))
  ELSE 0

RECURSIVE totalIssues(_)
totalIssues(analyses) ==
  IF analyses = <<>> THEN 0
  ELSE Len(Head(analyses).changeDetectionIssues) + Len(Head(analyses).templateIssues)
         + Len(Head(analyses).subscriptionIssues) + totalIssues(Tail(analyses))

generateProjectSummary(analyses, successCount, errorCount) ==
  LET breakdown == countAnalyses(issuesByType, analyses) IN
  [totalComponents |-> successCount,
   totalIssues |-> totalIssues(analyses),
   averagePerformanceScore |-> averagePerformanceScore(analyses),
   analysisErrors |-> errorCount,
   issueBreakdown |-> breakdown,
   topIssues |-> topIssues(breakdown)]

\* The component files that findComponentFiles may hand to a project analysis.
ProjectFiles ==
  { UnreadableFile,
    SourceFile(<< [named |-> TRUE, decorator |-> "noarg",
                   changeDetection |-> "absent", templateUrl |-> FALSE] >>,
               [matches |-> {}, subscribeCalls |-> 0,
                imports |-> << <<"@angular", "core">> >>],
               MissingTemplate),
    SourceFile(<< Annotated("absent", TRUE) >>,
               [matches |-> {}, subscribeCalls |-> 0,
                imports |-> << <<"@angular", "core">> >>],
               TemplateFile(<< LineGreeting >>)),
    SourceFile(<< Annotated("absent", TRUE) >>,
               [matches |-> {"ngOnInit"}, subscribeCalls |-> 0,
                imports |-> << <<"@angular", "core">> >>],
               TemplateFile(<< LineFor, LineTwoCalls >>)),
    SourceFile(<< Annotated("OnPush", TRUE) >>,
               [matches |-> {"ngOnInit", "subscribe"}, subscribeCalls |-> 2,
                imports |-> << <<"@angular", "core">>, <<"rxjs", "operators">> >>],
               MissingTemplate),
    SourceFile(<< Annotated("Default", FALSE) >>,
               [matches |-> {"ngOnInit", "subscribe"}, subscribeCalls |-> 4,
                imports |-> << <<"@angular", "core">>, <<"rxjs", "operators">> >>],
               MissingTemplate) }

VARIABLES
  pc,             \* "idle", "componentDone", "analyzing", "projectDone"
  file,           \* the path given to a single-component analysis
  outcome,        \* what that analyzeComponent call did: [threw, warned, analysis]
  analyzer,       \* the fields of the PerformanceAnalyzer instance in use
  componentFiles, \* analyzeProjectWithSummary: the discovered files
  index,          \* the position of the forEach over componentFiles
  results,        \* the analyses pushed so far
  successCount,
  errorCount,
  log,            \* per attempted file: the file and what its analysis did
  summary,        \* the ProjectSummary, once generated
  cli             \* the command line run in progress, if the run came from main

vars ==
  << pc, file, outcome, analyzer, componentFiles, index, results, successCount,
     errorCount, log, summary, cli >>

Init ==
  /\ pc = "idle"
  /\ file = None
  /\ outcome = None
  /\ analyzer = FreshAnalyzer
  /\ componentFiles = <<>>
  /\ index = 0
  /\ results = <<>>
  /\ successCount = 0
  /\ errorCount = 0
  /\ log = <<>>
  /\ summary = None
  /\ cli = None

\* ------------------------------------------------------------------ command line
\* The values -o/--output and -f/--format take on the command lines considered.
OutputPaths == {None, Some("./reports/report.out")}
Formats == {None, Some("json")}

analysisState ==
  << file, outcome, analyzer, componentFiles, index, results, successCount,
     errorCount, log, summary >>

\* JSON.stringify of a number: NaN is written as null.
stringifyNumber(x) ==
  IF x.nan THEN [json |-> "null"] ELSE [json |-> "number", value |-> x.value]

\* JSON.parse of a number or of null.
null == [null |-> TRUE]
parseNumber(j) == IF j.json = "null" THEN null ELSE Num(j.value)

\* JSON.stringify of a template finding: a property whose value is undefined is
\* left out.
stringifyTemplateIssue(issue) ==
  IF issue.elementCount = None
  THEN [type |-> issue.type, severity |-> issue.severity,
        description |-> issue.description]
  ELSE [type |-> issue.type, severity |-> issue.severity,
        description |-> issue.description, elementCount |-> Get(issue.elementCount)]

\* The parsed finding; a property that is not there reads as undefined.
parseTemplateIssue(j) ==
  [type |-> j.type, severity |-> j.severity, description |-> j.description,
   elementCount |-> IF "elementCount" \in DOMAIN j THEN Some(j.elementCount)
                    ELSE None]

stringifyEntries(entries) ==
  MapSeq(entries, LAMBDA e : [type |-> e.type, count |-> stringifyNumber(e.count)])

parseEntries(entries) ==
  MapSeq(entries, LAMBDA e : [type |-> e.type, count |-> parseNumber(e.count)])

\* JSON.stringify(jsonReport, null, 2): the summary and the analyses.
stringifyReport(s, analyses) ==
  [summary |-> [s EXCEPT !.issueBreakdown = stringifyEntries(@),
                         !.topIssues = stringifyEntries(@)],
   analyses |->
     MapSeq(analyses,
            LAMBDA a : [a EXCEPT !.templateIssues =
                                   MapSeq(@, LAMBDA x : stringifyTemplateIssue(x))])]

\* JSON.parse of that text.
parseReport(text) ==
  [summary |-> [text.summary EXCEPT !.issueBreakdown = parseEntries(@),
                                    !.topIssues = parseEntries(@)],
   analyses |->
     MapSeq(text.analyses,
            LAMBDA a : [a EXCEPT !.templateIssues =
                                   MapSeq(@, LAMBDA x : parseTemplateIssue(x))])]

\* The run of one command as main sees it.
Command(command, outputPath, format) ==
  [command |-> command, outputPath |-> outputPath, format |-> format,
   target |-> None,       \* the file saveReportToFile was asked to write
   awaited |-> FALSE,     \* whether the handler awaits that write
   written |-> None,      \* the file that was written
   printed |-> FALSE,     \* whether the report went to the console
   report |-> None,       \* the JSON text handed to saveReportToFile
   errors |-> 0,          \* console.error calls
   ran |-> << >>,         \* the handlers main has called
   threw |-> FALSE,       \* whether the handler threw (or its promise rejected)
   help |-> FALSE,        \* whether the help text was printed
   completed |-> FALSE,   \* whether main printed its completion line
   exitCode |-> None]

\* process.exit(1) in the catch block of main.
exitOnError(c) ==
  [c EXCEPT !.errors = @ + 1, !.threw = TRUE, !.exitCode = Some(1)]

\* The end of main after a handler that returned.
exitNormally(c) == [c EXCEPT !.completed = TRUE, !.exitCode = Some(0)]

\* A single file analysed with a new PerformanceAnalyzer (commands.component).
AnalyzeSingleComponent ==
  /\ pc = "idle"
  /\ \E f \in Files :
       LET r == analyzeComponent(FreshAnalyzer, f)
           c == [Command("component", None, None) EXCEPT !.ran = <<"component">>]
       IN
       /\ file' = Some(f)
       /\ outcome' = Some([threw |-> r.threw, warned |-> r.warned,
                           analysis |-> r.analysis])
       /\ analyzer' = r.this
       /\ cli' = Some(IF r.threw THEN exitOnError(c) ELSE exitNormally(c))
  /\ pc' = "componentDone"
  /\ UNCHANGED << componentFiles, index, results, successCount, errorCount, log,
                  summary >>

\* analyzeProjectWithSummary up to the loop: one analyzer for the whole run.
StartProjectAnalysis ==
  /\ pc \in {"idle", "dispatched"}
  /\ \E fs \in SeqsUpTo(ProjectFiles, MaxFiles) : componentFiles' = fs
  /\ analyzer' = FreshAnalyzer
  /\ results' = <<>>
  /\ successCount' = 0
  /\ errorCount' = 0
  /\ index' = 1
  /\ pc' = "analyzing"
  /\ UNCHANGED << file, outcome, log, summary, cli >>

\* A loop whose first failing file ends the run.
AnalyzeNextFile_stopsAtError ==
  /\ pc = "analyzing"
  /\ index <= Len(componentFiles)
  /\ LET filePath == componentFiles[index]
         r == analyzeComponent(analyzer, filePath)
     IN /\ analyzer' = r.this
        /\ log' = Append(log, [file |-> filePath, threw |-> r.threw,
                               analysis |-> r.analysis])
        /\ IF r.threw
           THEN /\ errorCount' = errorCount + 1
                /\ index' = Len(componentFiles) + 1
                /\ UNCHANGED << results, successCount >>
           ELSE /\ results' = Append(results, Get(r.analysis))
                /\ successCount' = successCount + 1
                /\ index' = index + 1
                /\ UNCHANGED errorCount
  /\ UNCHANGED << pc, file, outcome, componentFiles, summary, cli >>

\* One turn of the forEach: the try block and its catch.
AnalyzeNextFile ==
  /\ pc = "analyzing"
  /\ index <= Len(componentFiles)
  /\ LET filePath == componentFiles[index]
         r == analyzeComponent(analyzer, filePath)
     IN /\ analyzer' = r.this
        /\ log' = Append(log, [file |-> filePath, threw |-> r.threw,
                               analysis |-> r.analysis])
        /\ IF r.threw
           THEN /\ errorCount' = errorCount + 1
                /\ UNCHANGED << results, successCount >>
           ELSE /\ results' = Append(results, Get(r.analysis))
                /\ successCount' = successCount + 1
                /\ UNCHANGED errorCount
  /\ index' = index + 1
  /\ UNCHANGED << pc, file, outcome, componentFiles, summary, cli >>

\* After the loop: the summary is generated and the pair returned.
FinishProjectAnalysis ==
  /\ pc = "analyzing"
  /\ index > Len(componentFiles)
  /\ summary' = Some(generateProjectSummary(results, successCount, errorCount))
  /\ pc' = "projectDone"
  /\ UNCHANGED << file, outcome, analyzer, componentFiles, index, results,
                  successCount, errorCount, log, cli >>

\* ------------------------------------------------------------------ commands
\* main up to the analysis: the arguments are read, the command is chosen and the
\* handler begins; project with an output path and report first make sure the
\* output directory exists, which the file system may refuse.
main ==
  /\ pc = "idle"
  /\ \E command \in {"project", "report"}, outputPath \in OutputPaths,
        o \in Formats, directoryFails \in BOOLEAN :
       LET format == IF command = "project"
                     THEN (IF o = None THEN Some("markdown") ELSE o)
                     ELSE None
           c == [Command(command, outputPath, format) EXCEPT !.ran = <<command>>]
           ensures == command = "report" \/ outputPath # None
       IN /\ (command = "report" => o = None)
          /\ (directoryFails => ensures)
          /\ IF directoryFails
             THEN cli' = Some(exitOnError(c)) /\ pc' = "exited"
             ELSE cli' = Some(c) /\ pc' = "dispatched"
  /\ UNCHANGED analysisState

\* First positional arguments that name no analysis: none, help, a word that is no
\* property of commands, and words that commands inherits from Object.prototype.
OtherArguments == {"", "help", "deploy", "toString", "constructor"}

\* commands[command]: the own properties of the object literal and the inherited ones.
hasCommand(command) ==
  command \in {"project", "component", "report", "help",
               "constructor", "toString", "valueOf", "hasOwnProperty"}

\* main on such an argument: the guard prints the help and returns; an argument
\* that passes the guard meets no case of the switch and main goes on to its
\* completion line.
mainWithoutHandler ==
  /\ pc = "idle"
  /\ \E arg \in OtherArguments :
       LET c == Command(arg, None, None) IN
       IF arg = "" \/ arg = "help" \/ ~hasCommand(arg)
       THEN cli' = Some([c EXCEPT !.help = TRUE, !.exitCode = Some(0)])
       ELSE cli' = Some(exitNormally(c))
  /\ pc' = "exited"
  /\ UNCHANGED analysisState

\* commands.component without a path: the handler throws at once.
componentWithoutPath ==
  /\ pc = "idle"
  /\ cli' = Some(exitOnError([Command("component", None, None)
                                EXCEPT !.ran = <<"component">>]))
  /\ pc' = "exited"
  /\ UNCHANGED analysisState

\* commands.project with format json: the report goes to the output path or to
\* ./performance-report.json, and the write is awaited.
projectJson ==
  /\ pc = "projectDone" /\ cli # None
  /\ Get(cli).command = "project" /\ Get(cli).format = Some("json")
  /\ cli' = Some([Get(cli) EXCEPT
                    !.target = IF Get(cli).outputPath # None THEN Get(cli).outputPath
                               ELSE Some("./performance-report.json"),
                    !.report = Some(stringifyReport(Get(summary), results)),
                    !.awaited = TRUE])
  /\ pc' = "writing"
  /\ UNCHANGED analysisState

\* commands.project otherwise: runAnalysis. With an output path the write is
\* started and not awaited, so main goes on to its completion line; without one
\* the report is printed.
runAnalysis ==
  /\ pc = "projectDone" /\ cli # None
  /\ Get(cli).command = "project" /\ Get(cli).format # Some("json")
  /\ IF Get(cli).outputPath # None
     THEN /\ cli' = Some([Get(cli) EXCEPT !.target = Get(cli).outputPath,
                                          !.awaited = FALSE,
                                          !.completed = TRUE])
          /\ pc' = "writing"
     ELSE /\ cli' = Some([Get(cli) EXCEPT !.printed = TRUE, !.completed = TRUE,
                                          !.exitCode = Some(0)])
          /\ pc' = "exited"
  /\ UNCHANGED analysisState

\* commands.report: the report goes to the output path or to
\* ./performance-report.md, and the write is awaited.
report ==
  /\ pc = "projectDone" /\ cli # None
  /\ Get(cli).command = "report"
  /\ cli' = Some([Get(cli) EXCEPT
                    !.target = IF Get(cli).outputPath # None THEN Get(cli).outputPath
                               ELSE Some("./performance-report.md"),
                    !.awaited = TRUE])
  /\ pc' = "writing"
  /\ UNCHANGED analysisState

\* saveReportToFile settles. A failed write is logged and thrown again: an awaiting
\* handler passes it to the catch block of main, runAnalysis hands it to
\* console.error and the process ends normally.
saveReportToFile ==
  /\ pc = "writing"
  /\ \E writeFails \in BOOLEAN :
       LET c == Get(cli) IN
       IF writeFails
       THEN IF c.awaited
            THEN cli' = Some(exitOnError([c EXCEPT !.errors = @ + 1]))
            ELSE cli' = Some([c EXCEPT !.errors = @ + 2, !.exitCode = Some(0)])
       ELSE cli' = Some([c EXCEPT !.written = c.target, !.completed = TRUE,
                                  !.exitCode = Some(0)])
  /\ pc' = "exited"
  /\ UNCHANGED analysisState

Next ==
  \/ AnalyzeSingleComponent
  \/ StartProjectAnalysis
  \/ AnalyzeNextFile
  \/ FinishProjectAnalysis
  \/ main
  \/ projectJson
  \/ runAnalysis
  \/ report
  \/ saveReportToFile
  \/ mainWithoutHandler
  \/ componentWithoutPath

Spec == Init /\ [][Next]_vars

\* ------------------------------------------------------------------ properties
\* A single-component analysis has returned an analysis.
Analysed == pc = "componentDone" /\ ~Get(outcome).threw
TheFile == Get(file)
TheAnalysis == Get(Get(outcome).analysis)
TheInfo == Get(analyzer.componentInfo)

Reverse(seq) == [i \in 1..Len(seq) |-> seq[Len(seq) + 1 - i]]

SeverityCount(a, severity) ==
  Count(a.changeDetectionIssues \o a.templateIssues \o a.subscriptionIssues,
        LAMBDA x : x.severity = severity)

Deduction(a) ==
  15 * SeverityCount(a, "high") + 10 * SeverityCount(a, "medium")
    + 5 * SeverityCount(a, "low")

TypeCount(issues, type) == Count(issues, LAMBDA x : x.type = type)

\* C1: the score of every analysed file is max(0, 100 - 15*H - 10*M - 5*L) over the
\* high, medium and low findings of its three severity-bearing families, and
\* processing the families or the findings in another order gives the same score.
C1_ScoreIsWeightedDeduction ==
  Analysed =>
    LET a == TheAnalysis IN
    /\ a.performanceScore = Max(0, 100 - Deduction(a))
    /\ calculatePerformanceScore(a.subscriptionIssues, a.changeDetectionIssues,
                                 a.templateIssues) = a.performanceScore
    /\ calculatePerformanceScore(Reverse(a.changeDetectionIssues),
                                 Reverse(a.templateIssues),
                                 Reverse(a.subscriptionIssues)) = a.performanceScore

\* An analysis with findings of all three severities in more than one family.
C1_Witness ==
  /\ Analysed
  /\ SeverityCount(TheAnalysis, "high") >= 2
  /\ SeverityCount(TheAnalysis, "medium") >= 2
  /\ SeverityCount(TheAnalysis, "low") >= 1
  /\ TheAnalysis.templateIssues # <<>>
  /\ TheAnalysis.performanceScore > 0

\* C2: the score of every returned analysis is an integer between 0 and 100, and
\* it is exactly 100 when the three severity-bearing families are empty.
C2_ScoreWithinRange ==
  Analysed =>
    LET a == TheAnalysis IN
    /\ a.performanceScore \in 0..100
    /\ (a.changeDetectionIssues = <<>> /\ a.templateIssues = <<>>
          /\ a.subscriptionIssues = <<>>) => a.performanceScore = 100

\* An analysis whose deductions exceed 100 points: the clamp acts.
C2_Witness ==
  /\ Analysed
  /\ Deduction(TheAnalysis) > 100
  /\ TheAnalysis.performanceScore = 0

\* The analyses of the files of the log that did not throw, in order.
RECURSIVE Succeeded(_)
Succeeded(entries) ==
  IF entries = <<>> THEN <<>>
  ELSE IF Head(entries).threw THEN Succeeded(Tail(entries))
       ELSE << Get(Head(entries).analysis) >> \o Succeeded(Tail(entries))

\* C3: a project analysis attempts every discovered file in discovery order, a
\* failing file does not end the loop, the returned analyses are those of the files
\* that succeeded, in order, and totalComponents + analysisErrors is the number of
\* discovered files with totalComponents the number of returned analyses.
C3_BatchIsolatesFailures ==
  /\ pc = "analyzing" => Len(log) = index - 1
  /\ pc \in {"analyzing", "projectDone"} =>
       /\ \A i \in 1..Len(log) : log[i].file = componentFiles[i]
       /\ results = Succeeded(log)
  /\ pc = "projectDone" =>
       /\ Len(log) = Len(componentFiles)
       /\ Get(summary).totalComponents + Get(summary).analysisErrors
            = Len(componentFiles)
       /\ Get(summary).totalComponents = Len(results)

\* A finished run in which a file failed and a later file was analysed.
C3_Witness ==
  /\ pc = "projectDone"
  /\ \E i, j \in 1..Len(log) : i < j /\ log[i].threw /\ ~log[j].threw
  /\ Get(summary).analysisErrors >= 1
  /\ Get(summary).totalComponents >= 1

\* C4: whatever the instance analysed before, including files whose analysis
\* threw, each call does what a fresh instance does on the same file.
C4_NoStateAcrossFiles ==
  \A i \in 1..Len(log) :
    LET fresh == analyzeComponent(FreshAnalyzer, log[i].file) IN
    /\ log[i].threw = fresh.threw
    /\ log[i].analysis = fresh.analysis

\* An instance that analysed one file, failed on a second and analysed a third,
\* different one.
C4_Witness ==
  /\ Len(log) >= 3
  /\ ~log[1].threw
  /\ log[2].threw
  /\ ~log[3].threw
  /\ log[3].file # log[1].file
  /\ log[3].analysis # log[1].analysis

\* The file declares no class and carries no component annotation.
NoClassNoAnnotation == TheFile.classes = <<>>

\* C5 as stated: a file with neither a class declaration nor a component annotation
\* has an empty name, default metadata, no finding in any of the four families and
\* the score 100, whatever else its text contains.
C5_NoClassMeansNoFindings ==
  (Analysed /\ NoClassNoAnnotation) =>
    LET a == TheAnalysis IN
    /\ a.componentName = ""
    /\ TheInfo.metadata = defaultMetadata
    /\ a.changeDetectionIssues = <<>>
    /\ a.templateIssues = <<>>
    /\ a.subscriptionIssues = <<>>
    /\ a.bundleOptimizations = <<>>
    /\ a.performanceScore = 100

\* C5 amended: such a file has an empty name, default metadata, no template finding
\* and no function-in-template or object-comparison finding; the rules that read
\* only the source text still apply: missing-onpush exactly when at least two
\* complexity patterns match, one manual-subscription finding per subscribe call,
\* one lazy-loading finding per large-library import; the score is 100 exactly when
\* no severity-bearing finding arises.
C5_NoClassFindingsComeFromSource ==
  (Analysed /\ NoClassNoAnnotation) =>
    LET a == TheAnalysis IN
    /\ a.componentName = ""
    /\ TheInfo.metadata = defaultMetadata
    /\ a.templateIssues = <<>>
    /\ \A i \in 1..Len(a.changeDetectionIssues) :
         a.changeDetectionIssues[i].type = "missing-onpush"
    /\ TypeCount(a.changeDetectionIssues, "missing-onpush")
         = (IF Cardinality({i \in 1..Len(complexityIndicators) :
                              complexityIndicators[i] \in TheFile.body.matches}) >= 2
            THEN 1 ELSE 0)
    /\ TypeCount(a.subscriptionIssues, "manual-subscription")
         = TheFile.body.subscribeCalls
    /\ Len(a.bundleOptimizations)
         = Count(TheFile.body.imports, LAMBDA spec : isLargeLibrary(spec))
    /\ (a.performanceScore = 100)
         <=> (a.changeDetectionIssues = <<>> /\ a.subscriptionIssues = <<>>)

\* A file without class or annotation, beside a readable template with findings,
\* whose source alone produces change-detection, subscription and bundle findings.
C5_Witness ==
  /\ Analysed
  /\ NoClassNoAnnotation
  /\ TheFile.template.readable
  /\ findFunctionCallsInTemplate(TheFile.template.lines) # <<>>
  /\ TypeCount(TheAnalysis.changeDetectionIssues, "missing-onpush") = 1
  /\ TheAnalysis.subscriptionIssues # <<>>
  /\ TheAnalysis.bundleOptimizations # <<>>
  /\ TheAnalysis.performanceScore < 100

\* The positions of the named classes that carry a Component({...}) annotation.
AnnotatedIndexes(classes) ==
  {i \in 1..Len(classes) : classes[i].named /\ classes[i].decorator = "object"}

LastIndex(S) == CHOOSE i \in S : \A j \in S : j <= i

C7_MissingOnPushIffGate ==
  Analysed =>
    LET issues == TheAnalysis.changeDetectionIssues
        declared == TheInfo.metadata.changeDetection
    IN /\ TypeCount(issues, "missing-onpush")
            = (IF (declared = None \/ declared # Some("OnPush"))
                    /\ shouldRecommendOnPush(analyzer)
               THEN 1 ELSE 0)
       /\ \A i \in 1..Len(issues) :
            issues[i].type = "missing-onpush" => issues[i].severity = "high"

\* A component that declares the Default mode and is complex: one finding.
C7_Witness ==
  /\ Analysed
  /\ TheInfo.metadata.changeDetection = Some("Default")
  /\ shouldRecommendOnPush(analyzer)
  /\ TypeCount(TheAnalysis.changeDetectionIssues, "missing-onpush") = 1

\* The template matches one of the five structural probes.
HasStructuralProbe(template) ==
  \E i \in 1..5 : testTemplate(templateComplexityIndicators[i], template)

\* C8: the classifier returns true whenever at least two source probes match, for
\* every template including an empty or missing one, and false whenever no source
\* probe matches, the template matches no structural probe and holds at most three
\* interpolations.
C8_ClassifierThresholds ==
  Analysed =>
    LET n == sourceComplexityCount(TheInfo.sourceCode)
        template == TheInfo.templateCode
    IN /\ n >= 2 => shouldRecommendOnPush(analyzer)
       /\ (n = 0 /\ ~HasStructuralProbe(template)
             /\ Len(Interpolations(template)) <= 3) => ~shouldRecommendOnPush(analyzer)

\* Two source probes and a template that could not be read: the finding is made.
C8_Witness ==
  /\ Analysed
  /\ sourceComplexityCount(TheInfo.sourceCode) >= 2
  /\ TheInfo.metadata.templateUrl # None
  /\ ~TheFile.template.readable
  /\ TheInfo.templateCode = <<>>
  /\ TypeCount(TheAnalysis.changeDetectionIssues, "missing-onpush") = 1

CategoryCount(recommendations, category) ==
  Count(recommendations, LAMBDA rec : rec.category = category)

TitleCount(recommendations, title) ==
  Count(recommendations, LAMBDA rec : rec.title = title)

\* C9 as stated: no two recommendations of an analysis share a category.
C9_OneRecommendationPerCategory ==
  Analysed =>
    \A category \in {"performance", "memory", "bundle-size"} :
      CategoryCount(TheAnalysis.recommendations, category) <= 1

\* C9 amended: no two recommendations of an analysis share a title; there are at
\* most two performance recommendations (OnPush and trackBy), at most one memory
\* recommendation and no bundle-size recommendation.
C9_OneRecommendationPerTitle ==
  Analysed =>
    LET recs == TheAnalysis.recommendations IN
    /\ \A i, j \in 1..Len(recs) : i # j => recs[i].title # recs[j].title
    /\ CategoryCount(recs, "performance") <= 2
    /\ CategoryCount(recs, "memory") <= 1
    /\ CategoryCount(recs, "bundle-size") = 0

\* Several missing-trackby findings beside a missing-onpush finding: two
\* performance recommendations.
C9_Witness ==
  /\ Analysed
  /\ TypeCount(TheAnalysis.templateIssues, "missing-trackby") >= 2
  /\ TypeCount(TheAnalysis.changeDetectionIssues, "missing-onpush") = 1
  /\ CategoryCount(TheAnalysis.recommendations, "performance") = 2

Indicator(b) == IF b THEN 1 ELSE 0

\* C10: the OnPush recommendation (high, performance) appears once iff there is a
\* missing-onpush finding, the trackBy recommendation (high, performance) once iff
\* there is a missing-trackby finding, the subscription recommendation (medium,
\* memory) once iff subscriptionIssues is not empty, and there is no other
\* recommendation.
C10_RecommendationsFollowFindings ==
  Analysed =>
    LET a == TheAnalysis
        recs == a.recommendations
        onPush == TypeCount(a.changeDetectionIssues, "missing-onpush") >= 1
        trackBy == TypeCount(a.templateIssues, "missing-trackby") >= 1
        subscription == a.subscriptionIssues # <<>>
    IN /\ TitleCount(recs, "Implement OnPush Change Detection") = Indicator(onPush)
       /\ TitleCount(recs, "Add TrackBy Functions") = Indicator(trackBy)
       /\ TitleCount(recs, "Optimize Subscription Management") = Indicator(subscription)
       /\ Len(recs) = Indicator(onPush) + Indicator(trackBy) + Indicator(subscription)
       /\ \A i \in 1..Len(recs) :
            /\ recs[i].title \in {"Implement OnPush Change Detection",
                                  "Add TrackBy Functions"}
                 => (recs[i].priority = "high" /\ recs[i].category = "performance")
            /\ recs[i].title = "Optimize Subscription Management"
                 => (recs[i].priority = "medium" /\ recs[i].category = "memory")

\* Template findings none of which is a missing trackBy, several subscription
\* findings and bundle findings: the memory recommendation alone.
C10_Witness ==
  /\ Analysed
  /\ TheAnalysis.templateIssues # <<>>
  /\ TypeCount(TheAnalysis.templateIssues, "missing-trackby") = 0
  /\ Len(TheAnalysis.subscriptionIssues) >= 2
  /\ TheAnalysis.bundleOptimizations # <<>>
  /\ TypeCount(TheAnalysis.changeDetectionIssues, "missing-onpush") = 0
  /\ Len(TheAnalysis.recommendations) = 1

\* ------------------------------------------------------------------ project summary
Summarised == pc = "projectDone"
TheSummary == Get(summary)

\* The finding kinds the rule evaluators push into the three scored families.
EmittedKinds ==
  {"missing-onpush", "function-in-template", "object-comparison", "missing-trackby",
   "async-pipe-opportunity", "large-ngfor", "manual-subscription",
   "multiple-subscriptions"}

HistogramKeys == {issuesByType[i].type : i \in 1..Len(issuesByType)}

RECURSIVE KindCount(_, _)
KindCount(analyses, kind) ==
  IF analyses = <<>> THEN 0
  ELSE TypeCount(Head(analyses).changeDetectionIssues \o Head(analyses).templateIssues
                   \o Head(analyses).subscriptionIssues, kind)
         + KindCount(Tail(analyses), kind)

\* C11: in every project summary the histogram has a key for every finding kind
\* the rules can emit, the value under each key is the number of findings of that
\* kind over all the analyses, and no key beyond the initial ones was added.
C11_HistogramCountsEveryKind ==
  Summarised =>
    LET h == TheSummary.issueBreakdown IN
    /\ \A k \in EmittedKinds : HasKey(h, k)
    /\ {h[i].type : i \in 1..Len(h)} = HistogramKeys
    /\ \A i \in 1..Len(h) :
         ~h[i].count.nan /\ h[i].count.value = KindCount(results, h[i].type)

\* x does not rank below y: both are numbers and x >= y.
NotBelow(x, y) == ~x.nan /\ ~y.nan /\ x.value >= y.value

Position(h, type) == CHOOSE i \in 1..Len(h) : h[i].type = type

\* C12: topIssues is the three leading entries of the histogram ranked by count:
\* three entries of the histogram, in non-increasing order of count, equal counts
\* in the order of the histogram's keys, and no entry left out ranks above them.
C12_TopIssuesRanking ==
  Summarised =>
    LET h == TheSummary.issueBreakdown
        top == TheSummary.topIssues
    IN /\ Len(top) = 3
       /\ \A i \in 1..3 : \E j \in 1..Len(h) : h[j] = top[i]
       /\ \A i \in 1..2 :
            /\ NotBelow(top[i].count, top[i + 1].count)
            /\ top[i].count = top[i + 1].count =>
                 Position(h, top[i].type) < Position(h, top[i + 1].type)
       /\ \A j \in 1..Len(h) :
            (\A i \in 1..3 : top[i] # h[j]) => NotBelow(top[3].count, h[j].count)

\* C13: a summary over no analyses has average 0 and no issues; over n >= 1
\* analyses the average, in hundredths, is the integer nearest to 100 * sum / n
\* (the larger one half way).
C13_AverageScore ==
  Summarised =>
    LET n == Len(results)
        avg == TheSummary.averagePerformanceScore
    IN /\ n = 0 => avg = 0 /\ TheSummary.totalIssues = 0
       /\ n > 0 =>
            /\ 2 * n * avg <= 200 * sumScores(results) + n
            /\ 200 * sumScores(results) + n < 2 * n * (avg + 1)

\* Every discovered file failed, so the summary is over no analyses.
C13_WitnessEmpty ==
  /\ Summarised
  /\ Len(componentFiles) >= 2
  /\ results = <<>>
  /\ TheSummary.analysisErrors = Len(componentFiles)
  /\ TheSummary.averagePerformanceScore = 0

\* Three analyses whose scores do not divide evenly: the average was rounded up.
C13_Witness ==
  /\ Summarised
  /\ Len(results) = 3
  /\ (100 * sumScores(results)) % 3 = 2
  /\ TheSummary.averagePerformanceScore = (100 * sumScores(results)) \div 3 + 1

\* ------------------------------------------------------------------ report sink
Exited == pc = "exited" /\ cli # None
TheCommand == Get(cli)

\* The write of the report was asked for and did not succeed.
WriteFailed == Exited /\ TheCommand.target # None /\ TheCommand.written = None

\* C14: in every command that writes its report to a file, a failed write ends
\* the process with a non-zero exit code.
C14_WriteFailureIsFatal ==
  WriteFailed => TheCommand.exitCode = Some(1)

\* C15: the project command run without an output path in the markdown format
\* writes its report to ./performance-report.md.
C15_ProjectDefaultOutputFile ==
  ( /\ Exited
    /\ TheCommand.command = "project"
    /\ TheCommand.outputPath = None
    /\ TheCommand.format = Some("markdown")
    /\ TheCommand.exitCode = Some(0) )
  => TheCommand.written = Some("./performance-report.md")

\* ------------------------------------------------------------------ template and subscription rules
\* The template text the rules were given.
TheTemplate == TheInfo.templateCode

NgForLines(template) == SelectSeq(template, LAMBDA line : line.kind = "ngFor")

\* C16: of the *ngFor="..." occurrences of the template, those whose expression
\* holds the token trackBy give no missing-trackby finding and each of the others
\* gives one, of severity high, in the order of the occurrences.
C16_TrackByRule ==
  Analysed =>
    LET without == SelectSeq(NgForLines(TheTemplate),
                             LAMBDA line : \A i \in 1..Len(line.expr) :
                                             line.expr[i] # "trackBy")
        found == SelectSeq(TheAnalysis.templateIssues,
                           LAMBDA x : x.type = "missing-trackby")
    IN /\ Len(found) = Len(without)
       /\ \A k \in 1..Len(found) :
            /\ found[k].severity = "high"
            /\ found[k].elementCount = estimateLoopSize(without[k].expr)
       /\ (Len(without) = 0 =>
             TypeCount(TheAnalysis.templateIssues, "missing-trackby") = 0)

\* A template with one occurrence of each sort: one finding, for the one without.
C16_Witness ==
  /\ Analysed
  /\ TheTemplate = << LineForTrackBy, LineForRows >>
  /\ TypeCount(TheAnalysis.templateIssues, "missing-trackby") = 1
  /\ TheAnalysis.templateIssues[1].elementCount = None

\* C17: with n the number of .subscribe(...) calls of the source, the subscription
\* family holds a multiple-subscriptions finding iff n > 3; it is then the only one,
\* of severity low, it follows the n manual-subscription findings and its
\* description holds the decimal numeral of n.
C17_MultipleSubscriptionsIffAboveThree ==
  Analysed =>
    LET n == TheFile.body.subscribeCalls
        issues == TheAnalysis.subscriptionIssues
    IN /\ TypeCount(issues, "multiple-subscriptions") = (IF n > 3 THEN 1 ELSE 0)
       /\ n > 3 =>
            /\ Len(issues) = n + 1
            /\ \A i \in 1..n : issues[i].type = "manual-subscription"
            /\ issues[n + 1].type = "multiple-subscriptions"
            /\ issues[n + 1].severity = "low"
            /\ \E j \in 1..Len(issues[n + 1].description) :
                 issues[n + 1].description[j] = ToString(n)

\* Four calls: the least count that brings the finding.
C17_Witness ==
  /\ Analysed
  /\ TheFile.body.subscribeCalls = 4
  /\ Len(TheAnalysis.subscriptionIssues) = 5
  /\ TheAnalysis.subscriptionIssues[5].description
       = <<"Component has ", "4", " manual subscriptions">>

\* The points the subscription family takes from the score.
SubscriptionPoints(a) ==
  10 * Count(a.subscriptionIssues, LAMBDA x : x.severity = "medium")
    + 5 * Count(a.subscriptionIssues, LAMBDA x : x.severity = "low")
    + 15 * Count(a.subscriptionIssues, LAMBDA x : x.severity = "high")

\* C18: there is one manual-subscription finding, of severity medium, per call
\* whose callee is a property access named subscribe, whatever other calls the
\* source makes; five such calls give six subscription findings worth 55 points.
C18_OneFindingPerSubscribeCall ==
  Analysed =>
    LET n == TheFile.body.subscribeCalls
        issues == TheAnalysis.subscriptionIssues
        manual == SelectSeq(issues, LAMBDA x : x.type = "manual-subscription")
    IN /\ Len(manual) = n
       /\ \A i \in 1..Len(manual) : manual[i].severity = "medium"
       /\ n = 5 =>
            /\ Len(issues) = 6
            /\ TypeCount(issues, "multiple-subscriptions") = 1
            /\ SubscriptionPoints(TheAnalysis) = 55
            /\ TheAnalysis.performanceScore
                 = Max(0, 100 - 55
                          - 15 * Count(TheAnalysis.changeDetectionIssues
                                         \o TheAnalysis.templateIssues,
                                       LAMBDA x : x.severity = "high")
                          - 10 * Count(TheAnalysis.changeDetectionIssues
                                         \o TheAnalysis.templateIssues,
                                       LAMBDA x : x.severity = "medium"))

\* Five calls and nothing else to find: the score is 45.
C18_Witness ==
  /\ Analysed
  /\ TheFile.body.subscribeCalls = 5
  /\ Len(TheAnalysis.subscriptionIssues) = 6
  /\ TheAnalysis.changeDetectionIssues = <<>>
  /\ TheAnalysis.templateIssues = <<>>
  /\ TheAnalysis.performanceScore = 45

\* The interpolations {{ name() }} of a template, in order of occurrence.
CallInterpolations(template) ==
  SelectSeq(Interpolations(template), LAMBDA x : x.form = "call")

\* C19: each interpolation {{ name() }} of the template gives one
\* function-in-template finding of severity high that names it, in the order of
\* the interpolations, and there are no others.
C19_EveryCallInterpolationIsFound ==
  Analysed =>
    LET calls == CallInterpolations(TheTemplate)
        found == SelectSeq(TheAnalysis.changeDetectionIssues,
                           LAMBDA x : x.type = "function-in-template")
    IN /\ Len(found) = Len(calls)
       /\ \A k \in 1..Len(found) :
            /\ found[k].severity = "high"
            /\ found[k].description
                 = <<"Function call '">> \o calls[k].name
                     \o <<"' in template causes unnecessary re-execution">>

\* C20: an *ngFor over users or items is estimated at 50 elements; without trackBy
\* it gives one missing-trackby finding carrying that estimate, and no template
\* gives a large-ngfor finding.
C20_NoLargeNgFor ==
  Analysed =>
    /\ TypeCount(TheAnalysis.templateIssues, "large-ngfor") = 0
    /\ \A i \in 1..Len(TheTemplate) :
         LET line == TheTemplate[i] IN
         (line.kind = "ngFor"
            /\ \E j \in 1..Len(line.expr) : line.expr[j] \in {"users", "items"})
         => /\ findNgForLoops(<<line>>)[1].estimatedSize = Some(50)
            /\ Get(findNgForLoops(<<line>>)[1].estimatedSize) <= 100
    /\ (TheTemplate = << LineFor >> =>
          /\ Len(TheAnalysis.templateIssues) = 1
          /\ TheAnalysis.templateIssues[1].type = "missing-trackby"
          /\ TheAnalysis.templateIssues[1].elementCount = Some(50))

\* The template *ngFor="let u of users" alone: one finding, missing-trackby.
C20_Witness ==
  /\ Analysed
  /\ TheTemplate = << LineFor >>
  /\ TypeCount(TheAnalysis.templateIssues, "missing-trackby") = 1
  /\ TypeCount(TheAnalysis.templateIssues, "large-ngfor") = 0

\* ------------------------------------------------------------------ bundle family, extraction
\* The analysed file with other import declarations.
WithImports(f, imports) == [f EXCEPT !.body.imports = imports]

RECURSIVE BundleCount(_)
BundleCount(analyses) ==
  IF analyses = <<>> THEN 0
  ELSE Len(Head(analyses).bundleOptimizations) + BundleCount(Tail(analyses))

\* C21: the same file with other imports has the same three scored families and
\* the same score, whatever its bundle findings; and the summary's totalIssues
\* counts the three scored families only.
C21_BundleFindingsDoNotScore ==
  /\ Analysed =>
       \A imports \in ImportLists :
         LET other == Get(analyzeComponent(FreshAnalyzer,
                                           WithImports(TheFile, imports)).analysis)
         IN /\ other.changeDetectionIssues = TheAnalysis.changeDetectionIssues
            /\ other.templateIssues = TheAnalysis.templateIssues
            /\ other.subscriptionIssues = TheAnalysis.subscriptionIssues
            /\ other.performanceScore = TheAnalysis.performanceScore
  /\ Summarised =>
       TheSummary.totalIssues = KindCount(results, "missing-onpush")
         + KindCount(results, "function-in-template")
         + KindCount(results, "object-comparison")
         + KindCount(results, "missing-trackby")
         + KindCount(results, "async-pipe-opportunity")
         + KindCount(results, "large-ngfor")
         + KindCount(results, "manual-subscription")
         + KindCount(results, "multiple-subscriptions")

\* An analysis with a bundle finding and nothing else: the score is 100.
C21_Witness ==
  /\ Analysed
  /\ Len(TheAnalysis.bundleOptimizations) >= 1
  /\ TheAnalysis.changeDetectionIssues = <<>>
  /\ TheAnalysis.templateIssues = <<>>
  /\ TheAnalysis.subscriptionIssues = <<>>
  /\ TheAnalysis.performanceScore = 100

\* A summary over analyses with bundle findings.
C21_WitnessSummary ==
  /\ Summarised
  /\ BundleCount(results) >= 2
  /\ TheSummary.totalIssues >= 1

\* The position of the first named class of the file that carries @Component({...}).
FirstAnnotated(classes) ==
  CHOOSE i \in 1..Len(classes) :
    /\ classes[i].named /\ classes[i].decorator = "object"
    /\ \A j \in 1..(i - 1) : ~(classes[j].named /\ classes[j].decorator = "object")

\* C22: name and metadata of the component record are those of the first class
\* that carries a Component annotation, whatever classes follow it.
C22_FirstAnnotatedClassWins ==
  ( /\ Analysed
    /\ \E i \in 1..Len(TheFile.classes) :
         TheFile.classes[i].named /\ TheFile.classes[i].decorator = "object" )
  => LET first == FirstAnnotated(TheFile.classes)
     IN /\ TheAnalysis.componentName = ClassName(first)
        /\ TheInfo.metadata = parseComponentMetadata(TheFile.classes[first])

\* ------------------------------------------------------------------ JSON report
\* C23: the JSON report of the project command parses back to the summary and
\* the analyses it was made from, field for field.
C23_JsonRoundTrip ==
  (cli # None /\ Get(cli).report # None) =>
    parseReport(Get(Get(cli).report)) = [summary |-> Get(summary), analyses |-> results]

\* ------------------------------------------------------------------ classifier probes
\* C24: with exactly one source probe matching, a template that matches none of
\* the five structural probes and holds at most three interpolations leaves the
\* classifier false, so no missing-onpush finding is made.
C24_InterpolationsAreNotStructural ==
  ( /\ Analysed
    /\ sourceComplexityCount(TheInfo.sourceCode) = 1
    /\ ~HasStructuralProbe(TheTemplate)
    /\ Len(Interpolations(TheTemplate)) <= 3 )
  => /\ ~shouldRecommendOnPush(analyzer)
     /\ TypeCount(TheAnalysis.changeDetectionIssues, "missing-onpush") = 0

\* The seven probes of the source and the patterns each one covers.
SourceProbes ==
  { {"ctorService", "ctorHttp", "ctorApi"},
    {"ngOnInit", "ngOnChanges", "ngAfterViewInit", "ngOnDestroy"},
    {"subscribe", "Observable", "Subject", "BehaviorSubject"},
    {"FormBuilder", "FormGroup", "FormControl", "Validators"},
    {"complexMethod"},
    {"computedGetter"},
    {"onHandler", "handleHandler"} }

ProbeCount(matches) == Cardinality({p \in SourceProbes : p \cap matches # {}})

\* C25: the source-probe count is the number of the seven probes that match, each
\* counted once however many of its patterns match; a source whose only signals
\* are two lifecycle method names counts 1 and, without a template, gets no
\* missing-onpush finding.
C25_EachProbeCountsOnce ==
  Analysed =>
    /\ sourceComplexityCount(TheInfo.sourceCode) = ProbeCount(TheFile.body.matches)
    /\ (ProbeCount(TheFile.body.matches) = 1 /\ TheTemplate = <<>>) =>
         TypeCount(TheAnalysis.changeDetectionIssues, "missing-onpush") = 0

\* The interpolations {{ name }} of a template whose name reads as a subscription.
SubscriptionInterpolations(template) ==
  SelectSeq(Interpolations(template),
            LAMBDA x : x.form = "ident" /\ isSubscriptionVariable(x.name))

\* C26: each interpolation {{ name }} whose name holds $, subscription, observable
\* or stream gives one async-pipe-opportunity finding of severity medium, and
\* there are no others.
C26_EverySubscriptionNameIsFound ==
  Analysed =>
    LET found == SelectSeq(TheAnalysis.templateIssues,
                           LAMBDA x : x.type = "async-pipe-opportunity")
    IN /\ Len(found) = Len(SubscriptionInterpolations(TheTemplate))
       /\ \A k \in 1..Len(found) : found[k].severity = "medium"

\* The annotation names a template and the file at that path cannot be read.
TemplateUnreadable ==
  /\ Analysed
  /\ TheInfo.metadata.templateUrl # None
  /\ ~TheFile.template.readable

\* C27: when the template named by templateUrl cannot be read the analysis is
\* returned with a warning, no template finding and no function-in-template or
\* object-comparison finding, while the gate, the subscription rule and the bundle
\* rule work from the source.
C27_MissingTemplateIsNotFatal ==
  /\ (pc = "componentDone" /\ TheFile.readable
        /\ \A i \in 1..Len(TheFile.classes) : TheFile.classes[i].decorator # "noarg")
     => ~Get(outcome).threw
  /\ TemplateUnreadable =>
       /\ Get(outcome).warned
       /\ TheAnalysis.templateIssues = <<>>
       /\ TypeCount(TheAnalysis.changeDetectionIssues, "function-in-template") = 0
       /\ TypeCount(TheAnalysis.changeDetectionIssues, "object-comparison") = 0
       /\ TypeCount(TheAnalysis.changeDetectionIssues, "missing-onpush")
            = Indicator(TheInfo.metadata.changeDetection # Some("OnPush")
                          /\ sourceComplexityCount(TheInfo.sourceCode) >= 2)
       /\ TypeCount(TheAnalysis.subscriptionIssues, "manual-subscription")
            = TheFile.body.subscribeCalls
       /\ Len(TheAnalysis.bundleOptimizations)
            = Count(TheFile.body.imports, isLargeLibrary)
  /\ (Analysed /\ ~TemplateUnreadable) => ~Get(outcome).warned

\* An unreadable template under a complex source with subscriptions and a large
\* import: the source rules made their findings.
C27_Witness ==
  /\ TemplateUnreadable
  /\ Get(outcome).warned
  /\ TypeCount(TheAnalysis.changeDetectionIssues, "missing-onpush") = 1
  /\ Len(TheAnalysis.subscriptionIssues) >= 1
  /\ Len(TheAnalysis.bundleOptimizations) >= 1
  /\ TheAnalysis.templateIssues = <<>>

\* ------------------------------------------------------------------ dispatch
\* A run of main has ended.
Ended == cli # None /\ Get(cli).exitCode # None

\* C28: a first argument other than project, component and report gets the help
\* text, no handler, no completion line and exit code 0; project, component and
\* report get their own handler, once, and exit code 1 iff the handler threw.
C28_DispatchByCommandName ==
  Ended =>
    LET c == Get(cli) IN
    IF c.command \in {"project", "component", "report"}
    THEN /\ c.ran = <<c.command>>
         /\ ~c.help
         /\ (c.exitCode = Some(1)) <=> c.threw
    ELSE /\ c.help
         /\ c.ran = <<>>
         /\ ~c.completed
         /\ c.exitCode = Some(0)
         /\ analysisState = << None, None, FreshAnalyzer, <<>>, 0, <<>>, 0, 0, <<>>,
                               None >>

\* C29: while the write of the report of a project command with an output path
\* is pending, main has not printed its completion line.
C29_CompletionAfterWrite ==
  ( /\ pc = "writing"
    /\ Get(cli).command = "project"
    /\ Get(cli).outputPath # None )
  => ~Get(cli).completed

\* The sum of the counts of a histogram; NaN if one of them is.
RECURSIVE SumCounts(_)
SumCounts(h) ==
  IF h = <<>> THEN Num(0)
  ELSE LET rest == SumCounts(Tail(h)) IN
       IF Head(h).count.nan \/ rest.nan THEN NaN
       ELSE Num(Head(h).count.value + rest.value)

RECURSIVE FamilyLengths(_)
FamilyLengths(analyses) ==
  IF analyses = <<>> THEN 0
  ELSE Len(Head(analyses).changeDetectionIssues \o Head(analyses).templateIssues
             \o Head(analyses).subscriptionIssues)
         + FamilyLengths(Tail(analyses))

\* C30: the counts of the histogram add up to totalIssues, which is the number of
\* findings in the three scored families of all the analyses.
C30_BreakdownSumsToTotal ==
  Summarised =>
    /\ SumCounts(TheSummary.issueBreakdown) = Num(TheSummary.totalIssues)
    /\ TheSummary.totalIssues = FamilyLengths(results)

====
